---- MODULE Spec2Model ----
(***************************************************************************)
(* Fit-scoring engine, try-on controller, order controller and custom-     *)
(* design controller of the Kimelia API.                                   *)
(*                                                                         *)
(* Three scorers are modelled, each translated from its source:            *)
(*   - the weighted catalog scorer of src/unnamed/part_005                 *)
(*     (calculateFittingResult / calculateFitScore / getFitDescription);   *)
(*   - the catalog scorer of src/services/calculateFittingResult.service.js*)
(*     which the try-on controller imports;                                *)
(*   - the custom-design scorer of                                         *)
(*     src/services/calculateFittingResultForCustomDesign.service.js.      *)
(*                                                                         *)
(* Conventions                                                             *)
(*   - A JavaScript object is a record; a property that is not set is a    *)
(*     field that is not in the record's DOMAIN.                           *)
(*   - Measurements are whole centimetres.  Reading a measurement that is  *)
(*     not set gives 0: every read in the three scorers is either `!x` or  *)
(*     `(x || 0)`, and both treat undefined exactly like 0.                *)
(*   - Every fitScore is held in tenths (Scale = 10), because the service  *)
(*     scorers subtract multiples of 0.3, 0.5 and 0.7.                     *)
(*   - Arithmetic is exact; Math.round rounds halves towards +infinity.    *)
(*     The one place where binary floating point can show is the quotient  *)
(*     overallScore / totalWeight of the weighted scorer: 0.15 and 0.1 are *)
(*     no binary fractions, so a quotient whose exact value is a half (for *)
(*     example shoulders 87 and waist 99: 37.8 / 0.4) may be computed just *)
(*     below the half and is then rounded down.  Both outcomes are kept    *)
(*     whenever shoulders (0.15) or length (0.1) is scored: the call       *)
(*     chooses whether such a quotient falls below the half.  With the     *)
(*     weights 0.25 alone every step is exact.                             *)
(*     The region score 100 - difference * 250 agrees with the exact value *)
(*     for all whole measurements from -200 to 200.                        *)
(***************************************************************************)
EXTENDS Integers, Sequences, FiniteSets, TLC

VARIABLES
    entry,          \* the function a call enters
    pc,             \* "ready": arguments bound, "done": the call has returned
    virtualFitting, \* first argument: body model / fitting profile / user measurement
    garment,        \* second argument: product / custom design / garment measurement
    size,           \* third argument: the selected size
    result,         \* what the call returned
    profiles,       \* the VirtualFitting collection: one document per user, or none
    lastId,         \* the number of _id values given to try-on entries so far
    request,        \* the request the controller handled last: handler, user, IDs
    response,       \* the response it sent: status and body
    fittingResult,  \* tryOnProduct's local fittingResult when it answered
    products,       \* the Product collection: the sizes array of each product
    orders,         \* the Order collection, in the order of creation
    customDesigns,  \* the CustomDesign collection: owner, designer, status
    calls           \* per client: the order or design request it runs or ran last

vars == <<entry, pc, virtualFitting, garment, size, result,
          profiles, lastId, request, response, fittingResult,
          products, orders, customDesigns, calls>>

\* the variables of a scoring call, and those of the try-on controller
scoringVars == <<entry, pc, virtualFitting, garment, size, result>>

controllerVars == <<profiles, lastId, request, response, fittingResult>>

\* the variables of the order and custom-design controllers
shopVars == <<products, orders, customDesigns, calls>>

---------------------------------------------------------------------------
(* Bounds of the input sets.                                               *)

MaxCm == 100      \* region inputs range over -MaxCm..MaxCm
MaxEntries == 2   \* the collection holds at most MaxEntries try-on entries
MaxStock == 2     \* the quantity of size M when the server starts
MaxOrders == 2    \* order requests are served until MaxOrders orders are stored
MaxDev == 2       \* garment measurements deviate by 0..MaxDev steps
DevStep == 6      \* centimetres per deviation step

---------------------------------------------------------------------------
(* JavaScript values.                                                      *)

\* fitScore values are held in tenths
Scale == 10

\* the value null returned for a region without data
Null == -1

\* the value undefined of a size argument
Undefined == "undefined"

\* no value returned yet
NoResult == [pending |-> TRUE]

\* m.k where undefined and 0 are not told apart
Get(m, k) == IF k \in DOMAIN m THEN m[k] ELSE 0

Abs(x) == IF x < 0 THEN -x ELSE x

Max(a, b) == IF a >= b THEN a ELSE b

Min(a, b) == IF a <= b THEN a ELSE b

\* floor(n / d) for any n and d # 0
FloorDiv(n, d) == IF d > 0 THEN n \div d ELSE (-n) \div (-d)

\* Math.round(n / d): the nearest integer, halves towards +infinity
RoundDiv(n, d) == FloorDiv(2 * n + d, 2 * d)

\* Math.round of the double computed for n / d with d > 0: when the exact
\* quotient is a half, the double lies on it or, if below, just under it
RoundQuotient(n, d, below) ==
    IF below /\ (2 * n) % d = 0 /\ ((2 * n) \div d) % 2 = 1
    THEN FloorDiv(n, d)
    ELSE RoundDiv(n, d)

\* {...a, ...b}
Spread(a, b) ==
    [k \in DOMAIN a \cup DOMAIN b |-> IF k \in DOMAIN b THEN b[k] ELSE a[k]]

\* Array.prototype.indexOf, 0-based, -1 when absent
IndexOf(seq, x) ==
    IF \E i \in 1..Len(seq) : seq[i] = x
    THEN (CHOOSE i \in 1..Len(seq) : seq[i] = x /\ \A j \in 1..(i - 1) : seq[j] # x) - 1
    ELSE -1

\* Array.prototype.findIndex on product.sizes, 0-based, -1 when absent
FindSizeIndex(sizes, s) ==
    IF \E i \in 1..Len(sizes) : sizes[i].size = s
    THEN (CHOOSE i \in 1..Len(sizes) :
              sizes[i].size = s /\ \A j \in 1..(i - 1) : sizes[j].size # s) - 1
    ELSE -1

---------------------------------------------------------------------------
(* Weighted catalog scorer, src/unnamed/part_005.                          *)

Regions == <<"shoulders", "bust", "waist", "hips", "length">>

RegionSet == {Regions[i] : i \in 1..Len(Regions)}

\* the weights 0.15, 0.25, 0.25, 0.25, 0.1 in hundredths
weights == [shoulders |-> 15, bust |-> 25, waist |-> 25, hips |-> 25, length |-> 10]

sizeOptions == <<"XS", "S", "M", "L", "XL", "XXL">>

\* the user's measurement a region is compared with
UserKey(part) == IF part = "length" THEN "height" ELSE part

\* a variant of calculateFitScore_weighted without the floor of 50
calculateFitScore_weighted_NoFloor(userMeasurement, productMeasurement) ==
    IF userMeasurement = 0 \/ productMeasurement = 0
    THEN Null
    ELSE RoundDiv(100 * productMeasurement
                    - 250 * Abs(userMeasurement - productMeasurement),
                  productMeasurement)

\* a variant of calculateFitScore_weighted that divides the difference by the
\* user's measurement
calculateFitScore_weighted_RelativeToUser(userMeasurement, productMeasurement) ==
    IF userMeasurement = 0 \/ productMeasurement = 0
    THEN Null
    ELSE LET num == 100 * userMeasurement
                      - 250 * Abs(userMeasurement - productMeasurement)
             atFloor == IF userMeasurement > 0
                        THEN num <= 50 * userMeasurement
                        ELSE num >= 50 * userMeasurement
         IN  IF atFloor THEN 50 ELSE RoundDiv(num, userMeasurement)

\* a variant of calculateFitScore_weighted that scores a region without data
\* at the floor instead of leaving it undefined
calculateFitScore_weighted_AbsentIsFloor(userMeasurement, productMeasurement) ==
    IF userMeasurement = 0 \/ productMeasurement = 0
    THEN 50
    ELSE LET absDiff == Abs(userMeasurement - productMeasurement)
             num == 100 * productMeasurement - 250 * absDiff
             atFloor == IF productMeasurement > 0
                        THEN num <= 50 * productMeasurement
                        ELSE num >= 50 * productMeasurement
         IN  IF atFloor THEN 50 ELSE RoundDiv(num, productMeasurement)

\* score of one region: an integer, or Null
calculateFitScore_weighted(userMeasurement, productMeasurement) ==
    IF userMeasurement = 0 \/ productMeasurement = 0
    THEN Null
    ELSE LET absDiff == Abs(userMeasurement - productMeasurement)
             \* 100 - difference * 250 = num / productMeasurement
             num == 100 * productMeasurement - 250 * absDiff
             \* num / productMeasurement <= 50
             atFloor == IF productMeasurement > 0
                        THEN num <= 50 * productMeasurement
                        ELSE num >= 50 * productMeasurement
         IN  IF atFloor THEN 50 ELSE RoundDiv(num, productMeasurement)

getFitDescription(score) ==
    IF score = Null THEN "No data available"
    ELSE IF score >= 95 THEN "Perfect fit"
    ELSE IF score >= 85 THEN "Good fit"
    ELSE IF score >= 75 THEN "Acceptable fit"
    ELSE IF score >= 65 THEN "Slightly tight"
    ELSE IF score >= 55 THEN "Tight fit"
    ELSE "Poor fit"

\* the garment's measurements for the selected size
finalProductMeasurements(product, sz) ==
    LET productMeasurements ==
            IF "measurements" \in DOMAIN product THEN product.measurements ELSE <<>>
        sizeIndex == FindSizeIndex(product.sizes, sz)
        sizeMeasurements ==
            IF sizeIndex >= 0 /\ "measurements" \in DOMAIN product.sizes[sizeIndex + 1]
            THEN product.sizes[sizeIndex + 1].measurements
            ELSE <<>>
    IN  Spread(productMeasurements, sizeMeasurements)

fitScoresOf(temporaryBodyModel, product, sz) ==
    LET userMeasurements == temporaryBodyModel.modelData
        final == finalProductMeasurements(product, sz)
    IN  [part \in RegionSet |->
            calculateFitScore_weighted(Get(userMeasurements, UserKey(part)),
                                       Get(final, part))]

RECURSIVE SumOver(_, _, _)
\* the loop over Object.entries(fitScores): sum of f[part] over the scored parts
SumOver(fitScores, f, i) ==
    IF i > Len(Regions) THEN 0
    ELSE (IF fitScores[Regions[i]] # Null THEN f[Regions[i]] ELSE 0)
         + SumOver(fitScores, f, i + 1)

\* a variant of finalScoreOf that divides by the sum of all five weights
finalScoreOf_AllWeights(fitScores, below) ==
    LET overallScore ==
            SumOver(fitScores, [p \in RegionSet |-> fitScores[p] * weights[p]], 1)
        totalWeight == SumOver(fitScores, weights, 1)
    IN  IF totalWeight > 0 THEN RoundQuotient(overallScore, 100, below) ELSE 85

\* a variant of finalScoreOf that gives every scored region the same weight
finalScoreOf_Unweighted(fitScores, below) ==
    LET overallScore ==
            SumOver(fitScores, [p \in RegionSet |-> fitScores[p]], 1)
        totalWeight == SumOver(fitScores, [p \in RegionSet |-> 1], 1)
    IN  IF totalWeight > 0 THEN RoundQuotient(overallScore, totalWeight, FALSE) ELSE 85

finalScoreOf(fitScores, below) ==
    LET overallScore ==
            SumOver(fitScores, [p \in RegionSet |-> fitScores[p] * weights[p]], 1)
        totalWeight == SumOver(fitScores, weights, 1)
        \* a weight that is no binary fraction takes part
        inexact == fitScores.shoulders # Null \/ fitScores.length # Null
    IN  IF totalWeight > 0
        THEN RoundQuotient(overallScore, totalWeight, below /\ inexact)
        ELSE 85

\* a variant of fitOf whose thresholds belong to the lower verdict
fitOf_Inclusive(finalScore) ==
    IF finalScore <= 70 THEN "poor"
    ELSE IF finalScore <= 80 THEN "tight"
    ELSE IF finalScore <= 90 THEN "good"
    ELSE "perfect"

fitOf(finalScore) ==
    IF finalScore < 70 THEN "poor"
    ELSE IF finalScore < 80 THEN "tight"
    ELSE IF finalScore < 90 THEN "good"
    ELSE "perfect"

\* a variant of sizeRecommendationOf with the two directions exchanged
sizeRecommendationOf_Swapped(finalScore, sz) ==
    LET currentSizeIndex == IndexOf(sizeOptions, sz)
    IN  IF finalScore > 95
        THEN IF currentSizeIndex < Len(sizeOptions) - 1
             THEN sizeOptions[currentSizeIndex + 2]
             ELSE sz
        ELSE IF finalScore < 75
        THEN IF currentSizeIndex > 0
             THEN sizeOptions[currentSizeIndex]
             ELSE sz
        ELSE sz

sizeRecommendationOf(finalScore, sz) ==
    LET currentSizeIndex == IndexOf(sizeOptions, sz)
    IN  IF finalScore < 75
        THEN IF currentSizeIndex < Len(sizeOptions) - 1
             THEN sizeOptions[currentSizeIndex + 2]
             ELSE sz
        ELSE IF finalScore > 95
        THEN IF currentSizeIndex > 0
             THEN sizeOptions[currentSizeIndex]
             ELSE sz
        ELSE sz

calculateFittingResult_weighted(temporaryBodyModel, product, sz, below) ==
    LET fitScores == fitScoresOf(temporaryBodyModel, product, sz)
        finalScore == finalScoreOf(fitScores, below)
    IN  [fit |-> fitOf(finalScore),
         sizeRecommendation |-> sizeRecommendationOf(finalScore, sz),
         fitScore |-> finalScore * Scale,
         fitDetails |-> [part \in RegionSet |-> getFitDescription(fitScores[part])]]

---------------------------------------------------------------------------
(* Catalog scorer, src/services/calculateFittingResult.service.js.         *)

\* a null or undefined object
Missing == [missing |-> TRUE]

\* !x for an object
Falsy(x) == "missing" \in DOMAIN x

\* x.k for an object x, undefined when the property is not set
Prop(x, k) == IF k \in DOMAIN x THEN x[k] ELSE Missing

\* !size : undefined and the empty string
SizeFalsy(sz) == sz = Undefined \/ sz = ""

\* the outcome of a call that ends with an uncaught TypeError
Thrown == [exception |-> "TypeError"]

\* String.prototype.toUpperCase on the size tokens
toUpperCase(sz) ==
    CASE sz = "xs" -> "XS"
      [] sz = "s" -> "S"
      [] sz = "m" -> "M"
      [] sz = "l" -> "L"
      [] sz = "xl" -> "XL"
      [] sz = "xxl" -> "XXL"
      [] OTHER -> sz

getDefaultFittingResult(sz) ==
    [fit |-> "Standard",
     sizeRecommendation |-> IF SizeFalsy(sz) THEN "M" ELSE sz,
     fitScore |-> 75 * Scale,
     fitDetails |-> [part \in RegionSet |-> "Standard fit"]]

\* calculateFitScore raises: size.toUpperCase() with size undefined
calculateFitScoreThrows(userMeasurements, productMeasurements, sz) ==
    ~Falsy(userMeasurements) /\ ~Falsy(productMeasurements) /\ sz = Undefined

\* the score before Math.max(0, Math.min(100, score)), in tenths
rawFitScore(userMeasurements, productMeasurements, sz) ==
    IF ~Falsy(userMeasurements) /\ ~Falsy(productMeasurements)
    THEN LET bustDiff == Abs(Get(userMeasurements, "bust")
                             - Get(productMeasurements, "bust"))
             waistDiff == Abs(Get(userMeasurements, "waist")
                              - Get(productMeasurements, "waist"))
         IN  80 * Scale - bustDiff * 5 - waistDiff * 7
             + (IF toUpperCase(sz) = "S" THEN -5 * Scale
                ELSE IF toUpperCase(sz) = "L" THEN 5 * Scale
                ELSE 0)
    ELSE 80 * Scale

calculateFitScore(userMeasurements, productMeasurements, sz) ==
    Max(0, Min(100 * Scale, rawFitScore(userMeasurements, productMeasurements, sz)))

analyzeFit(userMeasurements, productMeasurements, sz) ==
    LET shoulders ==
            IF ~Falsy(userMeasurements) /\ ~Falsy(productMeasurements)
            THEN IF Get(userMeasurements, "shoulders")
                      > Get(productMeasurements, "shoulders") + 2
                 THEN "Tight across shoulders"
                 ELSE IF Get(userMeasurements, "shoulders")
                           < Get(productMeasurements, "shoulders") - 2
                 THEN "Loose on shoulders"
                 ELSE "Standard fit"
            ELSE "Standard fit"
    IN  [part \in RegionSet |->
            IF part = "shoulders" THEN shoulders ELSE "Standard fit"]

determineFit(fitScore) ==
    IF fitScore < 40 * Scale THEN "Tight"
    ELSE IF fitScore > 80 * Scale THEN "Loose"
    ELSE "Standard"

recommendSize(userMeasurements, productMeasurements, sz) ==
    IF SizeFalsy(sz) THEN "M"
    ELSE IF ~Falsy(userMeasurements) /\ ~Falsy(productMeasurements)
    THEN IF Get(userMeasurements, "waist") > Get(productMeasurements, "waist") + 5
         THEN "L"
         ELSE IF Get(userMeasurements, "bust") < Get(productMeasurements, "bust") - 5
         THEN "S"
         ELSE sz
    ELSE sz

\* the body of the try block: the returned value, or Thrown
tryFittingResult(vf, product, sz) ==
    IF Falsy(vf) THEN getDefaultFittingResult(sz)
    ELSE IF Falsy(product) THEN getDefaultFittingResult(sz)
    ELSE LET userBodyMeasurements == Prop(vf, "bodyMeasurements")
             productMeasurements == Prop(product, "measurements")
         IN  IF calculateFitScoreThrows(userBodyMeasurements, productMeasurements, sz)
             THEN Thrown
             ELSE LET fittingScore ==
                          calculateFitScore(userBodyMeasurements, productMeasurements, sz)
                  IN  [fit |-> determineFit(fittingScore),
                       sizeRecommendation |->
                           recommendSize(userBodyMeasurements, productMeasurements, sz),
                       fitScore |-> fittingScore,
                       fitDetails |->
                           analyzeFit(userBodyMeasurements, productMeasurements, sz)]

\* a variant of calculateFittingResult without the catch clause
calculateFittingResult_NoCatch(vf, product, sz) ==
    tryFittingResult(vf, product, sz)

calculateFittingResult(vf, product, sz) ==
    LET r == tryFittingResult(vf, product, sz)
    IN  IF r = Thrown THEN getDefaultFittingResult(sz) ELSE r

---------------------------------------------------------------------------
(* Custom-design scorer,                                                   *)
(* src/services/calculateFittingResultForCustomDesign.service.js.          *)

\* a variant of getDefaultFittingResultForCustomDesign with the literal of
\* the normal path
getDefaultFittingResultForCustomDesign_Base ==
    [fit |-> "Loose",
     sizeRecommendation |-> "Custom",
     fitScore |-> 90 * Scale,
     fitDetails |-> [part \in RegionSet |-> "Perfect fit"]]

getDefaultFittingResultForCustomDesign ==
    [fit |-> "Perfect",
     sizeRecommendation |-> "Custom",
     fitScore |-> 95 * Scale,
     fitDetails |-> [part \in RegionSet |-> "Perfect fit"]]

\* the score before Math.max(0, Math.min(100, score)), in tenths
rawFitScoreForCustomDesign(userMeasurements, designSpecifications) ==
    IF ~Falsy(userMeasurements) /\ ~Falsy(designSpecifications)
    THEN LET bustDiff == Abs(Get(userMeasurements, "bust")
                             - Get(designSpecifications, "bust"))
             waistDiff == Abs(Get(userMeasurements, "waist")
                              - Get(designSpecifications, "waist"))
         IN  90 * Scale - bustDiff * 3 - waistDiff * 5
    ELSE 90 * Scale

\* a variant of calculateFitScoreForCustomDesign without the final clamp
calculateFitScoreForCustomDesign_NoClamp(userMeasurements, designSpecifications) ==
    rawFitScoreForCustomDesign(userMeasurements, designSpecifications)

calculateFitScoreForCustomDesign(userMeasurements, designSpecifications) ==
    Max(0, Min(100 * Scale,
               rawFitScoreForCustomDesign(userMeasurements, designSpecifications)))

analyzeFitForCustomDesign(userMeasurements, designSpecifications) ==
    LET shoulders ==
            IF ~Falsy(userMeasurements) /\ ~Falsy(designSpecifications)
            THEN IF Get(userMeasurements, "shoulders")
                      > Get(designSpecifications, "shoulders") + 1
                 THEN "Slightly tight across shoulders"
                 ELSE IF Get(userMeasurements, "shoulders")
                           < Get(designSpecifications, "shoulders") - 1
                 THEN "Slightly loose on shoulders"
                 ELSE "Perfect fit"
            ELSE "Perfect fit"
    IN  [part \in RegionSet |->
            IF part = "shoulders" THEN shoulders ELSE "Perfect fit"]

determineFitForCustomDesign(fitScore) ==
    IF fitScore < 40 * Scale THEN "Tight"
    ELSE IF fitScore > 80 * Scale THEN "Loose"
    ELSE "Standard"

\* a variant of calculateFittingResultForCustomDesign that recommends the
\* catalog default size on the normal path
calculateFittingResultForCustomDesign_DefaultSize(vf, customDesign) ==
    IF Falsy(vf) THEN getDefaultFittingResultForCustomDesign
    ELSE IF Falsy(customDesign) THEN getDefaultFittingResultForCustomDesign
    ELSE LET userBodyMeasurements == Prop(vf, "bodyMeasurements")
             designSpecifications == Prop(customDesign, "designSpecifications")
             fittingScore ==
                 calculateFitScoreForCustomDesign(userBodyMeasurements,
                                                  designSpecifications)
         IN  [fit |-> determineFitForCustomDesign(fittingScore),
              sizeRecommendation |-> "M",
              fitScore |-> fittingScore,
              fitDetails |->
                  analyzeFitForCustomDesign(userBodyMeasurements, designSpecifications)]

\* no statement of the try block can raise, so the catch clause is never taken
calculateFittingResultForCustomDesign(vf, customDesign) ==
    IF Falsy(vf) THEN getDefaultFittingResultForCustomDesign
    ELSE IF Falsy(customDesign) THEN getDefaultFittingResultForCustomDesign
    ELSE LET userBodyMeasurements == Prop(vf, "bodyMeasurements")
             designSpecifications == Prop(customDesign, "designSpecifications")
             fittingScore ==
                 calculateFitScoreForCustomDesign(userBodyMeasurements,
                                                  designSpecifications)
         IN  [fit |-> determineFitForCustomDesign(fittingScore),
              sizeRecommendation |-> "Custom",
              fitScore |-> fittingScore,
              fitDetails |->
                  analyzeFitForCustomDesign(userBodyMeasurements, designSpecifications)]

\* the custom-design scorer that part_005 defines next to the weighted
\* catalog scorer: it reads neither argument
calculateFittingResultForCustomDesign_inline(temporaryBodyModel, customDesign) ==
    [fit |-> "perfect",
     sizeRecommendation |-> "Custom",
     fitScore |-> 95 * Scale,
     fitDetails |-> [part \in RegionSet |-> "Perfect fit"]]

---------------------------------------------------------------------------
(* Try-on controller, src/controllers/VirtualFitting.controller.js (the    *)
(* handlers that import the two service scorers).                          *)
(*                                                                         *)
(* A handler runs from its request to its response in one step.  The calls *)
(* that leave the controller (image upload, body model, try-on generation, *)
(* rendering, save) succeed or fail as the environment decides: failAt     *)
(* names the point of the handler at which the first such call fails, and  *)
(* a point the request does not reach fails nothing.  A save validates the *)
(* document against the schema of the collection (src/unnamed/part_003)    *)
(* and raises a ValidationError when an entry does not pass.               *)

Users == {"u1", "u2"}

\* the value of `productId || null` for an ID that is not given
NullRef == "null"

\* no document of the collection matches the user
NoProfile == [none |-> TRUE]

HasProfile(doc) == "none" \notin DOMAIN doc

NoRequest == [handler |-> "none"]

NoResponse == [status |-> 0]

\* `let fittingResult = {}`
EmptyObject == [empty |-> TRUE]

\* no request has been handled
NoRequests ==
    /\ profiles = [u \in Users |-> NoProfile]
    /\ lastId = 0
    /\ request = NoRequest
    /\ response = NoResponse
    /\ fittingResult = EmptyObject

\* the Product collection
catalog == [p1 |-> [name |-> "p1", measurements |-> [bust |-> 96, waist |-> 76]]]

\* the CustomDesign collection
designs ==
    [d1 |-> [name |-> "d1", user |-> "u1",
             designSpecifications |-> [bust |-> 90, waist |-> 76]]]

\* the measurements a profile gets when the request carries none
basicMeasurements ==
    [height |-> 170, weight |-> 70, chest |-> 90, waist |-> 80, hips |-> 95]

\* req.body.measurements: the requests modelled carry none
MeasurementInputs == {Missing}

\* productId and customDesignId of a try-on request: none, one of the two
\* (known: p1, d1; unknown: p9, d9), or both
IdPairs ==
    { <<Undefined, Undefined>>, <<"p1", Undefined>>, <<"p9", Undefined>>,
      <<Undefined, "d1">>, <<Undefined, "d9">>, <<"p1", "d1">> }

RequestSizes == {Undefined, "L"}

\* the points at which a call that leaves the handler can fail
FailurePoints == {"none", "profile", "image", "tryOn", "save"}

\* the values the schema allows for fittedProducts[].fittingResult.fit
fitEnum == {"perfect", "loose", "tight", "needsAlteration"}

\* the enum validator of the schema, run on an entry when the document is saved
validate(tryOnEntry) == tryOnEntry.fittingResult.fit \in fitEnum

\* the response of a catch clause: status 500 with error.message
ServerError(error) == [status |-> 500, error |-> error]

\* the result tryOnProduct builds when neither ID is given
defaultGarmentResult(sz) ==
    [fit |-> "standard",
     sizeRecommendation |-> IF SizeFalsy(sz) THEN "M" ELSE sz,
     fitScore |-> 85 * Scale,
     fitDetails |-> [part \in RegionSet |-> "Standard fit"]]

\* the entry tryOnProduct pushes
tryOnEntry(id, productId, customDesignId, fr) ==
    [id |-> id,
     product |-> IF productId = Undefined THEN NullRef ELSE productId,
     customDesign |-> IF customDesignId = Undefined THEN NullRef ELSE customDesignId,
     fittingResult |-> fr]

\* what tryOnProduct does: the collection it leaves, the response it sends,
\* its local fittingResult, and whether it has pushed and saved an entry
tryOnOutcome(user, productId, customDesignId, sz, imageFile, failAt) ==
    LET found == profiles[user]
        creates == ~HasProfile(found) /\ imageFile
        virtualFittingDoc ==
            IF creates
            THEN [user |-> user, bodyMeasurements |-> basicMeasurements,
                  fittedProducts |-> <<>>]
            ELSE found
        \* the collection after the save of a new profile
        saved == IF creates
                 THEN [profiles EXCEPT ![user] = virtualFittingDoc]
                 ELSE profiles
        answer(docs, res, fr, pushed) ==
            [docs |-> docs, response |-> res, fittingResult |-> fr, pushed |-> pushed]
        status(code) == [status |-> code]
        finish(fr) ==
            LET pushedEntry == tryOnEntry(lastId + 1, productId, customDesignId, fr)
            IN  IF failAt = "save"
                THEN answer(saved, ServerError("Error"), fr, FALSE)
                ELSE IF ~validate(pushedEntry)
                THEN answer(saved, ServerError("ValidationError"), fr, FALSE)
                ELSE answer([saved EXCEPT ![user].fittedProducts =
                                Append(@, pushedEntry)],
                            status(200), fr, TRUE)
    IN  IF creates /\ failAt = "profile"
        THEN answer(profiles, ServerError("Error"), EmptyObject, FALSE)
        ELSE IF ~HasProfile(virtualFittingDoc)
        THEN answer(profiles, status(404), EmptyObject, FALSE)
        ELSE IF imageFile /\ failAt = "image"
        THEN answer(saved, ServerError("Error"), EmptyObject, FALSE)
        ELSE IF productId # Undefined
        THEN IF productId \notin DOMAIN catalog
             THEN answer(saved, status(404), EmptyObject, FALSE)
             ELSE IF failAt = "tryOn"
             THEN answer(saved, ServerError("Error"), EmptyObject, FALSE)
             ELSE finish(calculateFittingResult(virtualFittingDoc,
                                                catalog[productId], sz))
        ELSE IF customDesignId # Undefined
        THEN IF customDesignId \notin DOMAIN designs
             THEN answer(saved, status(404), EmptyObject, FALSE)
             ELSE IF designs[customDesignId].user # user
             THEN answer(saved, status(403), EmptyObject, FALSE)
             ELSE IF failAt = "tryOn"
             THEN answer(saved, ServerError("Error"), EmptyObject, FALSE)
             ELSE finish(calculateFittingResultForCustomDesign(
                             virtualFittingDoc, designs[customDesignId]))
        ELSE IF failAt = "tryOn"
        THEN answer(saved, ServerError("Error"), EmptyObject, FALSE)
        ELSE finish(defaultGarmentResult(sz))

\* the request carries an image file or none, and the environment chooses
\* the point of failure
tryOnProduct(user, productId, customDesignId, sz) ==
    /\ \E out \in { tryOnOutcome(user, productId, customDesignId, sz, imageFile, failAt) :
                      imageFile \in BOOLEAN, failAt \in FailurePoints } :
           /\ out.pushed => lastId < MaxEntries
           /\ profiles' = out.docs
           /\ lastId' = IF out.pushed THEN lastId + 1 ELSE lastId
           /\ response' = out.response
           /\ fittingResult' = out.fittingResult
    /\ request' = [handler |-> "tryOnProduct", user |-> user,
                   productId |-> productId, customDesignId |-> customDesignId]
    /\ UNCHANGED scoringVars
    /\ UNCHANGED shopVars

uploadUserPhoto(user, imageFile, measurementsGiven, fails) ==
    /\ LET measurements == IF Falsy(measurementsGiven)
                           THEN basicMeasurements
                           ELSE measurementsGiven
           found == profiles[user]
           virtualFittingDoc ==
               IF HasProfile(found)
               THEN [found EXCEPT !.bodyMeasurements = measurements]
               ELSE [user |-> user, bodyMeasurements |-> measurements,
                     fittedProducts |-> <<>>]
       IN  IF ~imageFile
           THEN /\ response' = [status |-> 400]
                /\ UNCHANGED profiles
           ELSE IF fails
           THEN /\ response' = ServerError("Error")
                /\ UNCHANGED profiles
           ELSE /\ response' = [status |-> 201]
                /\ profiles' = [profiles EXCEPT ![user] = virtualFittingDoc]
    /\ request' = [handler |-> "uploadUserPhoto", user |-> user]
    /\ fittingResult' = EmptyObject
    /\ UNCHANGED lastId
    /\ UNCHANGED scoringVars
    /\ UNCHANGED shopVars

getTryOnHistory(user) ==
    /\ response' = IF HasProfile(profiles[user])
                   THEN [status |-> 200, body |-> profiles[user].fittedProducts]
                   ELSE [status |-> 404]
    /\ request' = [handler |-> "getTryOnHistory", user |-> user]
    /\ fittingResult' = EmptyObject
    /\ UNCHANGED <<profiles, lastId>>
    /\ UNCHANGED scoringVars
    /\ UNCHANGED shopVars

\* fittedProducts.findIndex((entry) => entry._id.toString() === entryId)
findEntryIndex(fittedProducts, entryId) ==
    IF \E i \in 1..Len(fittedProducts) : fittedProducts[i].id = entryId
    THEN (CHOOSE i \in 1..Len(fittedProducts) :
             /\ fittedProducts[i].id = entryId
             /\ \A j \in 1..(i - 1) : fittedProducts[j].id # entryId) - 1
    ELSE -1

\* a variant of splice that removes the last entry
splice_Last(fittedProducts, entryIndex) ==
    [i \in 1..(Len(fittedProducts) - 1) |-> fittedProducts[i]]

\* fittedProducts.splice(entryIndex, 1)
splice(fittedProducts, entryIndex) ==
    [i \in 1..(Len(fittedProducts) - 1) |->
        IF i <= entryIndex THEN fittedProducts[i] ELSE fittedProducts[i + 1]]

deleteTryOnEntry(user, entryId, fails) ==
    /\ LET found == profiles[user]
           entryIndex == findEntryIndex(found.fittedProducts, entryId)
       IN  IF ~HasProfile(found)
           THEN /\ response' = [status |-> 404]
                /\ UNCHANGED profiles
           ELSE IF entryIndex = -1
           THEN /\ response' = [status |-> 404]
                /\ UNCHANGED profiles
           ELSE IF fails
           THEN /\ response' = ServerError("Error")
                /\ UNCHANGED profiles
           ELSE /\ response' = [status |-> 200]
                /\ profiles' = [profiles EXCEPT ![user].fittedProducts =
                                    splice(@, entryIndex)]
    /\ request' = [handler |-> "deleteTryOnEntry", user |-> user, entryId |-> entryId]
    /\ fittingResult' = EmptyObject
    /\ UNCHANGED lastId
    /\ UNCHANGED scoringVars
    /\ UNCHANGED shopVars

---------------------------------------------------------------------------
(* Order controller, src/controllers/order.controller.js, with the schemas *)
(* of src/models/order.model.js (orders) and src/unnamed/part_002          *)
(* (products).                                                             *)
(*                                                                         *)
(* createOrder is a sequence of steps, one for each await of the handler:  *)
(* the look-up of an item in the validation loop, the save of the order,   *)
(* and in the inventory loop the look-up of a product and its save.  A     *)
(* request served alone runs its steps to the end in one action; requests  *)
(* served together interleave at the steps.  A save validates the document *)
(* against its schema and writes the paths that were modified.             *)

Clients == {"c1", "c2"}

\* the accounts and their role (userSchema.role)
role == [u1 |-> "customer", u2 |-> "customer", g1 |-> "designer", a1 |-> "admin"]

Accounts == DOMAIN role

Idle == [pc |-> "idle"]

\* the sizes of product p1 when the server starts
initialSizes ==
    <<[size |-> "M", quantity |-> MaxStock], [size |-> "L", quantity |-> 1]>>

\* the collections and the clients before the first order or design request
NoCalls ==
    /\ products = [p1 |-> initialSizes]
    /\ orders = <<>>
    /\ customDesigns = [d1 |-> [name |-> "d1", user |-> "u1",
                               assignedDesigner |-> NullRef, status |-> "draft"]]
    /\ calls = [c \in Clients |-> Idle]

\* return res.status(code).json(...)
Respond(task, code) == [task EXCEPT !.pc = "done", !.status = code]

\* one turn of the validation loop: the item at task.i
checkItem(task, db) ==
    LET item == task.items[task.i]
        next == IF task.i < Len(task.items)
                THEN [task EXCEPT !.i = @ + 1]
                ELSE [task EXCEPT !.pc = "save"]
    IN  IF "product" \in DOMAIN item
        THEN IF item.product \notin DOMAIN db.products
             THEN Respond(task, 404)
             ELSE IF "size" \in DOMAIN item
             THEN LET sizes == db.products[item.product]
                      sizeIndex == FindSizeIndex(sizes, item.size)
                  IN  IF sizeIndex = -1
                      THEN Respond(task, 400)
                      ELSE IF sizes[sizeIndex + 1].quantity < item.quantity
                      THEN Respond(task, 400)
                      ELSE next
             ELSE next
        ELSE IF "customDesign" \in DOMAIN item
        THEN IF item.customDesign \notin DOMAIN db.customDesigns
             THEN Respond(task, 404)
             ELSE IF db.customDesigns[item.customDesign].status # "approved"
             THEN Respond(task, 400)
             ELSE next
        ELSE Respond(task, 400)

\* the first item at or after position from that the inventory loop updates
\* (item.product && item.size), 0 when there is none
nextSized(items, from) ==
    LET sized == {j \in from..Len(items) :
                     "product" \in DOMAIN items[j] /\ "size" \in DOMAIN items[j]}
    IN  IF sized = {} THEN 0 ELSE CHOOSE j \in sized : \A k \in sized : j <= k

\* the inventory loop goes on with the item at or after position from, or
\* the handler answers 201
continueInventory(task, from) ==
    IF nextSized(task.items, from) = 0
    THEN Respond(task, 201)
    ELSE [task EXCEPT !.pc = "read", !.i = nextSized(task.items, from)]

\* the validators of orderSchema.items: quantity is required and at least 1
validateOrder(order) ==
    \A j \in 1..Len(order.items) :
        /\ "quantity" \in DOMAIN order.items[j]
        /\ order.items[j].quantity >= 1

\* new Order({...}) and order.save(): status takes its default
saveOrder(task, db) ==
    LET order == [user |-> task.user, items |-> task.items, status |-> "pending"]
    IN  IF ~validateOrder(order)
        THEN [task |-> Respond(task, 500), orders |-> db.orders]
        ELSE [task |-> continueInventory(task, 1), orders |-> Append(db.orders, order)]

\* Product.findById(item.product) of the inventory loop
readProduct(task, db) ==
    [task EXCEPT !.pc = "write", !.product = db.products[task.items[task.i].product]]

\* a variant of validateProduct without the minimum
validateProduct_NoMin(sizes) == TRUE

\* the validator of productSchema.sizes: quantity is at least 0
validateProduct(sizes) == \A j \in 1..Len(sizes) : sizes[j].quantity >= 0

\* the decrement of the document read and product.save(), which writes the
\* quantity that was modified
writeProduct(task, db) ==
    LET item == task.items[task.i]
        sizeIndex == FindSizeIndex(task.product, item.size)
        product == [task.product EXCEPT ![sizeIndex + 1].quantity = @ - item.quantity]
    IN  IF sizeIndex = -1
        THEN [task |-> continueInventory(task, task.i + 1), products |-> db.products]
        ELSE IF ~validateProduct(product)
        THEN [task |-> Respond(task, 500), products |-> db.products]
        ELSE [task |-> continueInventory(task, task.i + 1),
              products |-> [db.products EXCEPT ![item.product][sizeIndex + 1].quantity =
                                                  product[sizeIndex + 1].quantity]]

\* the handler up to its first await
beginOrder(user, items) ==
    LET task == [pc |-> "check", handler |-> "createOrder", user |-> user,
                 items |-> items, i |-> 1, product |-> <<>>, status |-> 0]
    IN  IF Len(items) = 0 THEN Respond(task, 400) ELSE task

\* the handler from one await to the next
orderStep(task, db) ==
    CASE task.pc = "check" -> [db EXCEPT !.task = checkItem(task, db)]
      [] task.pc = "save" ->
            [db EXCEPT !.task = saveOrder(task, db).task,
                       !.orders = saveOrder(task, db).orders]
      [] task.pc = "read" -> [db EXCEPT !.task = readProduct(task, db)]
      [] task.pc = "write" ->
            [db EXCEPT !.task = writeProduct(task, db).task,
                       !.products = writeProduct(task, db).products]

\* the handler from an await to its response
RECURSIVE runOrder(_)
runOrder(db) ==
    IF db.task.pc = "done" THEN db ELSE runOrder(orderStep(db.task, db))

\* a client is free to send a request
Free(c) == calls[c].pc \in {"idle", "done"}

\* the collections with the task of a handler
WithTask(task) ==
    [task |-> task, products |-> products, orders |-> orders,
     customDesigns |-> customDesigns]

\* createOrder served alone
createOrder(c, user, items) ==
    /\ Free(c)
    /\ Len(orders) < MaxOrders
    /\ LET out == runOrder(WithTask(beginOrder(user, items)))
       IN  /\ calls' = [calls EXCEPT ![c] = out.task]
           /\ products' = out.products
           /\ orders' = out.orders
    /\ UNCHANGED customDesigns
    /\ UNCHANGED <<scoringVars, controllerVars>>

\* createOrder served with other requests: the request arrives
receiveOrder(c, user, items) ==
    /\ Free(c)
    /\ Len(orders) < MaxOrders
    /\ calls' = [calls EXCEPT ![c] = beginOrder(user, items)]
    /\ UNCHANGED <<products, orders, customDesigns>>
    /\ UNCHANGED <<scoringVars, controllerVars>>

\* createOrder served with other requests: the handler of c goes on to its
\* next await
resumeOrder(c) ==
    /\ calls[c].pc \in {"check", "save", "read", "write"}
    /\ LET out == orderStep(calls[c], WithTask(calls[c]))
       IN  /\ calls' = [calls EXCEPT ![c] = out.task]
           /\ products' = out.products
           /\ orders' = out.orders
    /\ UNCHANGED customDesigns
    /\ UNCHANGED <<scoringVars, controllerVars>>

\* the answer of a handler that runs from its request to its response
Answered(handler, user, id, code) ==
    [pc |-> "done", handler |-> handler, user |-> user, id |-> id, status |-> code]

\* orderSchema.status
orderStatuses == {"pending", "processing", "shipped", "delivered", "cancelled"}

\* Order.findById: the orders are numbered in the order of their creation
OrderIds == 1..MaxOrders

\* PUT /api/orders/:id/status, behind the middlewares protect and admin
updateOrderStatus(c, user, id, status) ==
    /\ Free(c)
    /\ IF role[user] # "admin"
       THEN /\ calls' = [calls EXCEPT ![c] = Answered("updateOrderStatus", user, id, 403)]
            /\ UNCHANGED orders
       ELSE IF id \notin 1..Len(orders)
       THEN /\ calls' = [calls EXCEPT ![c] = Answered("updateOrderStatus", user, id, 404)]
            /\ UNCHANGED orders
       ELSE LET order == [orders[id] EXCEPT
                             !.status = IF status = Undefined THEN @ ELSE status]
            IN  IF order.status \notin orderStatuses
                THEN /\ calls' = [calls EXCEPT
                                     ![c] = Answered("updateOrderStatus", user, id, 500)]
                     /\ UNCHANGED orders
                ELSE /\ calls' = [calls EXCEPT
                                     ![c] = Answered("updateOrderStatus", user, id, 200)]
                     /\ orders' = [orders EXCEPT ![id] = order]
    /\ UNCHANGED <<products, customDesigns>>
    /\ UNCHANGED <<scoringVars, controllerVars>>

\* PUT /api/orders/:id/pay, behind the middleware protect
updateOrderPayment(c, user, id) ==
    /\ Free(c)
    /\ IF id \notin 1..Len(orders)
       THEN /\ calls' = [calls EXCEPT ![c] = Answered("updateOrderPayment", user, id, 404)]
            /\ UNCHANGED orders
       ELSE IF orders[id].user # user /\ role[user] # "admin"
       THEN /\ calls' = [calls EXCEPT ![c] = Answered("updateOrderPayment", user, id, 403)]
            /\ UNCHANGED orders
       ELSE /\ calls' = [calls EXCEPT ![c] = Answered("updateOrderPayment", user, id, 200)]
            /\ orders' = [orders EXCEPT ![id].status = "processing"]
    /\ UNCHANGED <<products, customDesigns>>
    /\ UNCHANGED <<scoringVars, controllerVars>>

---------------------------------------------------------------------------
(* Custom-design controller, src/controllers/customDesign.controller.js,   *)
(* with the schema of src/unnamed/part_001 and the role checks of          *)
(* src/middlewares/auth.middleware.js.  Each handler has one save, so it   *)
(* runs from its request to its response in one step.                      *)

\* customDesignSchema.status
designStatuses ==
    {"draft", "submitted", "approved", "inProduction", "completed", "rejected"}

\* the ids of a design request: the design of the collection and an id no
\* design has
DesignIds == {"d1", "d9"}

\* the answer of a handler that stops before it changes the design
refuse(c, handler, user, id, code) ==
    /\ calls' = [calls EXCEPT ![c] = Answered(handler, user, id, code)]
    /\ UNCHANGED customDesigns

\* design.save() and res.json(updatedDesign): the enum of status is validated
saveDesign(c, handler, user, id, design) ==
    IF design.status \notin designStatuses
    THEN refuse(c, handler, user, id, 500)
    ELSE /\ calls' = [calls EXCEPT ![c] = Answered(handler, user, id, 200)]
         /\ customDesigns' = [customDesigns EXCEPT ![id] = design]

\* Object.keys(req.body).forEach(...) over the keys that are allowed
assignFields(design, body, allowed) ==
    [key \in DOMAIN design |->
        IF key \in DOMAIN body /\ key \in allowed THEN body[key] ELSE design[key]]

\* PUT /api/custom-designs/:id, behind the middleware protect
updateCustomDesign(c, user, id, body) ==
    /\ Free(c)
    /\ IF id \notin DOMAIN customDesigns
       THEN refuse(c, "updateCustomDesign", user, id, 404)
       ELSE LET design == customDesigns[id]
            IN  IF /\ design.user # user
                   /\ design.assignedDesigner # user
                   /\ role[user] # "admin"
                THEN refuse(c, "updateCustomDesign", user, id, 403)
                ELSE IF /\ design.status # "draft"
                        /\ role[user] # "designer"
                        /\ role[user] # "admin"
                THEN saveDesign(c, "updateCustomDesign", user, id,
                                assignFields(design, body, {"name", "description"}))
                ELSE saveDesign(c, "updateCustomDesign", user, id,
                                assignFields(design, body, DOMAIN body))
    /\ UNCHANGED <<products, orders>>
    /\ UNCHANGED <<scoringVars, controllerVars>>

\* PUT /api/custom-designs/:id/submit, behind the middleware protect
submitCustomDesign(c, user, id) ==
    /\ Free(c)
    /\ IF id \notin DOMAIN customDesigns
       THEN refuse(c, "submitCustomDesign", user, id, 404)
       ELSE IF customDesigns[id].user # user
       THEN refuse(c, "submitCustomDesign", user, id, 403)
       ELSE IF customDesigns[id].status # "draft"
       THEN refuse(c, "submitCustomDesign", user, id, 400)
       ELSE saveDesign(c, "submitCustomDesign", user, id,
                       [customDesigns[id] EXCEPT !.status = "submitted"])
    /\ UNCHANGED <<products, orders>>
    /\ UNCHANGED <<scoringVars, controllerVars>>

\* PUT /api/custom-designs/:id/assign, behind the middlewares protect and admin
assignDesigner(c, user, id, designerId) ==
    /\ Free(c)
    /\ IF role[user] # "admin"
       THEN refuse(c, "assignDesigner", user, id, 403)
       ELSE IF id \notin DOMAIN customDesigns
       THEN refuse(c, "assignDesigner", user, id, 404)
       ELSE IF designerId \notin Accounts
       THEN refuse(c, "assignDesigner", user, id, 400)
       ELSE IF role[designerId] # "designer"
       THEN refuse(c, "assignDesigner", user, id, 400)
       ELSE saveDesign(c, "assignDesigner", user, id,
                       [customDesigns[id] EXCEPT !.assignedDesigner = designerId])
    /\ UNCHANGED <<products, orders>>
    /\ UNCHANGED <<scoringVars, controllerVars>>

\* PUT /api/custom-designs/:id/status, behind the middlewares protect and
\* designer
updateDesignStatus(c, user, id, status) ==
    /\ Free(c)
    /\ IF role[user] # "designer" /\ role[user] # "admin"
       THEN refuse(c, "updateDesignStatus", user, id, 403)
       ELSE IF id \notin DOMAIN customDesigns
       THEN refuse(c, "updateDesignStatus", user, id, 404)
       ELSE IF customDesigns[id].assignedDesigner # user /\ role[user] # "admin"
       THEN refuse(c, "updateDesignStatus", user, id, 403)
       ELSE saveDesign(c, "updateDesignStatus", user, id,
                       [customDesigns[id] EXCEPT !.status = status])
    /\ UNCHANGED <<products, orders>>
    /\ UNCHANGED <<scoringVars, controllerVars>>

---------------------------------------------------------------------------
(* Specification of one call of calculateFitScore (part_005).              *)

InitRegion ==
    /\ NoRequests
    /\ NoCalls
    /\ entry = "calculateFitScore"
    /\ pc = "ready"
    /\ virtualFitting \in -MaxCm..MaxCm
    /\ garment \in -MaxCm..MaxCm
    /\ size = Undefined
    /\ result = NoResult

CallFitScore ==
    /\ entry = "calculateFitScore"
    /\ pc = "ready"
    /\ result' = [score |-> calculateFitScore_weighted(virtualFitting, garment)]
    /\ pc' = "done"
    /\ UNCHANGED <<entry, virtualFitting, garment, size>>
    /\ UNCHANGED controllerVars
    /\ UNCHANGED shopVars

NextRegion == CallFitScore

SpecRegion == InitRegion /\ [][NextRegion]_vars

---------------------------------------------------------------------------
(* Specification of one call of the weighted catalog scorer (part_005).    *)

\* the measurements of a typical body, and of a garment that matches it
Typical == [shoulders |-> 40, bust |-> 90, waist |-> 70, hips |-> 95,
            height |-> 170, length |-> 170]

\* the user measurement sets: a full body, the two examples of the spec, and
\* a body with a measurement of zero
Bodies ==
    { [shoulders |-> 40, bust |-> 90, waist |-> 70, hips |-> 95, height |-> 170],
      [bust |-> 90, waist |-> 70],
      [waist |-> 90],
      [bust |-> 90, waist |-> 0, hips |-> 95] }

\* a garment measurement set: region k is absent when idx[k] < 0, and else
\* exceeds the typical measurement by idx[k] steps
GarmentOf(keys, idx) ==
    [k \in {x \in keys : idx[x] >= 0} |-> Typical[k] + DevStep * idx[k]]

\* product.sizes: no entry, an entry without measurements, an entry that
\* overrides two regions, and two entries for one size (the first one counts)
SizeTables ==
    { <<>>,
      << [size |-> "M"] >>,
      << [size |-> "M", measurements |-> [bust |-> 90, waist |-> 70]] >>,
      << [size |-> "L", measurements |-> [hips |-> 0]],
         [size |-> "L", measurements |-> [hips |-> 95]] >> }

Products ==
    { [measurements |-> GarmentOf(RegionSet, idx), sizes |-> t] :
        idx \in [RegionSet -> -1..MaxDev], t \in SizeTables }

\* the sizes of the enumeration, a lower-case token and undefined
SizeInputs == {sizeOptions[i] : i \in 1..Len(sizeOptions)} \cup {"xs", Undefined}

InitWeighted ==
    /\ NoRequests
    /\ NoCalls
    /\ entry = "weighted"
    /\ pc = "ready"
    /\ virtualFitting \in {[modelData |-> b] : b \in Bodies}
    /\ garment \in Products
    /\ size \in SizeInputs
    /\ result = NoResult

\* a variant of CallWeighted that merges the size's measurements into the
\* product's own measurements instead of into a new object
CallWeighted_InPlace ==
    /\ entry = "weighted"
    /\ pc = "ready"
    /\ \E below \in BOOLEAN :
          result' = calculateFittingResult_weighted(virtualFitting, garment, size, below)
    /\ pc' = "done"
    /\ garment' = [garment EXCEPT !.measurements = finalProductMeasurements(garment, size)]
    /\ UNCHANGED <<entry, virtualFitting, size>>
    /\ UNCHANGED controllerVars
    /\ UNCHANGED shopVars

CallWeighted ==
    /\ entry = "weighted"
    /\ pc = "ready"
    /\ \E below \in BOOLEAN :
          result' = calculateFittingResult_weighted(virtualFitting, garment, size, below)
    /\ pc' = "done"
    /\ UNCHANGED <<entry, virtualFitting, garment, size>>
    /\ UNCHANGED controllerVars
    /\ UNCHANGED shopVars

NextWeighted == CallWeighted

SpecWeighted == InitWeighted /\ [][NextWeighted]_vars

---------------------------------------------------------------------------
(* Specifications of one call of the service scorers.                      *)

\* the measurements of a large body
Large == [shoulders |-> 40, bust |-> 130, waist |-> 120]

ServiceKeys == {"shoulders", "bust", "waist"}

\* the body measurement sets of a profile: every region is absent, typical
\* or large
BodyMeasurementSets ==
    { [k \in {x \in ServiceKeys : pick[x] # 0} |->
          IF pick[k] = 1 THEN Typical[k] ELSE Large[k]] :
        pick \in {f \in [ServiceKeys -> 0..2] : f["shoulders"] < 2} }

\* a garment measurement set: region k is absent when idx[k] = 0, and else
\* lies idx[k] - 1 - MaxDev steps from the typical measurement
GarmentAround(keys, idx) ==
    [k \in {x \in keys : idx[x] > 0} |->
        Typical[k] + DevStep * (idx[k] - 1 - MaxDev)]

GarmentMeasurementSets ==
    { GarmentAround(ServiceKeys, idx) : idx \in [ServiceKeys -> 0..(2 * MaxDev + 1)] }

\* a profile is missing, has no body measurements, or has some
Profiles ==
    {Missing, [user |-> "u1"]}
        \cup {[user |-> "u1", bodyMeasurements |-> m] : m \in BodyMeasurementSets}

\* a product is missing, has no measurements, or has some
ServiceProducts ==
    {Missing, [name |-> "p1"]}
        \cup {[name |-> "p1", measurements |-> m] : m \in GarmentMeasurementSets}

\* a custom design is missing, has no specifications, or has some
CustomDesigns ==
    {Missing, [name |-> "d1"]}
        \cup {[name |-> "d1", designSpecifications |-> m] : m \in GarmentMeasurementSets}

\* undefined, the empty string, the enumeration, and two lower-case tokens
ServiceSizeInputs ==
    {Undefined, "", "s", "l"} \cup {sizeOptions[i] : i \in 1..Len(sizeOptions)}

InitService ==
    /\ NoRequests
    /\ NoCalls
    /\ entry = "service"
    /\ pc = "ready"
    /\ virtualFitting \in Profiles
    /\ garment \in ServiceProducts
    /\ size \in ServiceSizeInputs
    /\ result = NoResult

CallService ==
    /\ entry = "service"
    /\ pc = "ready"
    /\ result' = calculateFittingResult(virtualFitting, garment, size)
    /\ pc' = "done"
    /\ UNCHANGED <<entry, virtualFitting, garment, size>>
    /\ UNCHANGED controllerVars
    /\ UNCHANGED shopVars

NextService == CallService

SpecService == InitService /\ [][NextService]_vars

InitCustom ==
    /\ NoRequests
    /\ NoCalls
    /\ entry \in {"custom", "customInline"}
    /\ pc = "ready"
    /\ virtualFitting \in Profiles
    /\ garment \in CustomDesigns
    /\ size = Undefined
    /\ result = NoResult

CallCustom ==
    /\ entry = "custom"
    /\ pc = "ready"
    /\ result' = calculateFittingResultForCustomDesign(virtualFitting, garment)
    /\ pc' = "done"
    /\ UNCHANGED <<entry, virtualFitting, garment, size>>
    /\ UNCHANGED controllerVars
    /\ UNCHANGED shopVars

CallCustomInline ==
    /\ entry = "customInline"
    /\ pc = "ready"
    /\ result' = calculateFittingResultForCustomDesign_inline(virtualFitting, garment)
    /\ pc' = "done"
    /\ UNCHANGED <<entry, virtualFitting, garment, size>>
    /\ UNCHANGED controllerVars
    /\ UNCHANGED shopVars

NextCustom == CallCustom \/ CallCustomInline

SpecCustom == InitCustom /\ [][NextCustom]_vars

---------------------------------------------------------------------------
(* Specification of one call of any of the scorers.                        *)

InitScoring == InitWeighted \/ InitService \/ InitCustom

NextScoring == CallWeighted \/ CallService \/ CallCustom \/ CallCustomInline

SpecScoring == InitScoring /\ [][NextScoring]_vars

---------------------------------------------------------------------------
(* Specification of the try-on controller: the four handlers serve         *)
(* requests of two users one after the other.  The server starts on a      *)
(* collection that holds documents the schema accepts: a user has no       *)
(* profile or one, and a profile holds entries whose fit is of fitEnum.    *)

\* a fittingResult that passes the validation of the schema
storedFittingResult(id) ==
    [fit |-> IF id % 2 = 1 THEN "perfect" ELSE "loose",
     sizeRecommendation |-> "M",
     fitScore |-> 90 * Scale,
     fitDetails |-> [part \in RegionSet |-> "Standard fit"]]

\* the entries 1..n of the collection, entry i in the profile of owner[i],
\* each profile holding its entries in the order of their creation
storedProfiles(withProfile, n, owner) ==
    [u \in Users |->
        IF u \in withProfile
        THEN LET mine == {i \in 1..n : owner[i] = u}
                 nth(k) == CHOOSE i \in mine :
                              Cardinality({j \in mine : j < i}) = k - 1
             IN  [user |-> u, bodyMeasurements |-> basicMeasurements,
                  fittedProducts |->
                      [k \in 1..Cardinality(mine) |->
                          tryOnEntry(nth(k), "p1", Undefined,
                                     storedFittingResult(nth(k)))]]
        ELSE NoProfile]

InitController ==
    /\ entry = "controller"
    /\ pc = "serving"
    /\ virtualFitting = Missing
    /\ garment = Missing
    /\ size = Undefined
    /\ result = NoResult
    /\ \E n \in 0..MaxEntries, withProfile \in SUBSET Users :
          \E owner \in [1..n -> withProfile] :
              /\ profiles = storedProfiles(withProfile, n, owner)
              /\ lastId = n
    /\ request = NoRequest
    /\ response = NoResponse
    /\ fittingResult = EmptyObject
    /\ NoCalls

TryOn ==
    \E user \in Users, ids \in IdPairs, sz \in RequestSizes :
        tryOnProduct(user, ids[1], ids[2], sz)

Upload ==
    \E user \in Users, imageFile \in BOOLEAN, measurementsGiven \in MeasurementInputs,
       fails \in BOOLEAN :
        uploadUserPhoto(user, imageFile, measurementsGiven, fails)

History == \E user \in Users : getTryOnHistory(user)

Delete ==
    \E user \in Users, entryId \in 1..MaxEntries, fails \in BOOLEAN :
        deleteTryOnEntry(user, entryId, fails)

NextController == TryOn \/ Upload \/ History \/ Delete

SpecController == InitController /\ [][NextController]_vars

---------------------------------------------------------------------------
(* Specification of the order controller serving createOrder requests one  *)
(* at a time.                                                              *)

\* an item of product p1 with a size and a quantity
sizedItem(sz, quantity) == [product |-> "p1", size |-> sz, quantity |-> quantity]

\* req.body.items: no item; one item of size M; two items of size M; items
\* of two sizes; an item without a size; an unknown product, alone and after
\* a good item; an item with neither product nor design; an unknown size
OrderItemLists ==
    {<<>>}
        \cup {<<sizedItem("M", q)>> : q \in 0..MaxStock}
        \cup {<<sizedItem("M", q), sizedItem("M", r)>> : q, r \in 1..MaxStock}
        \cup { <<sizedItem("M", 1), sizedItem("L", 1)>>,
               <<[product |-> "p1", quantity |-> 1]>>,
               <<[product |-> "p9", size |-> "M", quantity |-> 1]>>,
               <<sizedItem("M", 1), [product |-> "p9", size |-> "M", quantity |-> 1]>>,
               <<[quantity |-> 1]>>,
               <<sizedItem("Q", 1)>> }

\* the scoring and try-on variables of a specification that does not use them
NoScoring(name) ==
    /\ entry = name
    /\ pc = "serving"
    /\ virtualFitting = Missing
    /\ garment = Missing
    /\ size = Undefined
    /\ result = NoResult
    /\ NoRequests

InitOrders ==
    /\ NoScoring("orders")
    /\ NoCalls

PlaceOrder == \E items \in OrderItemLists : createOrder("c1", "u1", items)

NextOrders == PlaceOrder

SpecOrders == InitOrders /\ [][NextOrders]_vars

---------------------------------------------------------------------------
(* Specification of the order controller serving the createOrder requests  *)
(* of two clients together: the handlers interleave at their awaits.       *)

\* the account a client is logged in with
accountOf == [c1 |-> "u1", c2 |-> "u2"]

\* req.body.items of these requests: one item of size M
SingleItemLists == {<<sizedItem("M", q)>> : q \in 1..MaxStock}

InitConcurrentOrders ==
    /\ NoScoring("concurrentOrders")
    /\ NoCalls

ReceiveOrder ==
    \E c \in Clients, items \in SingleItemLists : receiveOrder(c, accountOf[c], items)

ResumeOrder == \E c \in Clients : resumeOrder(c)

NextConcurrentOrders == ReceiveOrder \/ ResumeOrder

SpecConcurrentOrders == InitConcurrentOrders /\ [][NextConcurrentOrders]_vars

---------------------------------------------------------------------------
(* Specification of the status of orders: orders of an item without a size *)
(* are created, an admin sets their status, users record payments.         *)

InitPayments ==
    /\ NoScoring("payments")
    /\ NoCalls

OrderUnsized == createOrder("c1", "u1", <<[product |-> "p1", quantity |-> 1]>>)

UpdateStatus ==
    \E user \in {"u1", "a1"}, id \in OrderIds, status \in orderStatuses \cup {Undefined, "refunded"} :
        updateOrderStatus("c1", user, id, status)

UpdatePayment ==
    \E user \in {"u1", "u2", "a1"}, id \in OrderIds : updateOrderPayment("c1", user, id)

NextPayments == OrderUnsized \/ UpdateStatus \/ UpdatePayment

SpecPayments == InitPayments /\ [][NextPayments]_vars

---------------------------------------------------------------------------
(* Specification of the status of a custom design: its owner u1, another   *)
(* customer, a designer and an admin send design requests, and the owner   *)
(* orders the design.                                                      *)

\* req.body of an update: a name, a designer, a status of the schema or a
\* status the schema does not have
UpdateBodies ==
    {[name |-> "renamed"], [assignedDesigner |-> "g1"]}
        \cup {[status |-> status] : status \in designStatuses \cup {"done"}}

InitDesigns ==
    /\ NoScoring("designs")
    /\ NoCalls

UpdateDesign ==
    \E user \in Accounts, id \in DesignIds, body \in UpdateBodies :
        updateCustomDesign("c1", user, id, body)

SubmitDesign ==
    \E user \in Accounts, id \in DesignIds : submitCustomDesign("c1", user, id)

AssignDesigner ==
    \E user \in Accounts, id \in DesignIds, designerId \in {"g1", "u2"} :
        assignDesigner("c1", user, id, designerId)

UpdateDesignStatus ==
    \E user \in Accounts, id \in DesignIds, status \in designStatuses \cup {"done"} :
        updateDesignStatus("c1", user, id, status)

OrderDesign == createOrder("c1", "u1", <<[customDesign |-> "d1", quantity |-> 1]>>)

NextDesigns ==
    UpdateDesign \/ SubmitDesign \/ AssignDesigner \/ UpdateDesignStatus \/ OrderDesign

SpecDesigns == InitDesigns /\ [][NextDesigns]_vars

---------------------------------------------------------------------------
(* Properties of the weighted catalog scorer.                              *)

\* a call of the entry point e has returned
Returned(e) == entry = e /\ pc = "done"

\* the garment measurements the weighted scorer compares with
Effective == finalProductMeasurements(garment, size)

\* the user measurement of a region, 0 when it is not set
UserOf(part) == Get(virtualFitting.modelData, UserKey(part))

\* the region has a measurement on both sides
PresentBoth(part) == UserOf(part) # 0 /\ Get(Effective, part) # 0

AllPositive(m) == \A k \in DOMAIN m : m[k] > 0

\* C1: for positive user and garment measurements with at least one region
\* present on both sides, and for every selected size, the fitScore of the
\* weighted catalog scorer is an integer between 50 and 100.
C1_WeightedScoreInRange ==
    (/\ Returned("weighted")
     /\ AllPositive(virtualFitting.modelData)
     /\ AllPositive(Effective)
     /\ \E part \in RegionSet : PresentBoth(part))
    => result.fitScore \in {Scale * k : k \in 50..100}

\* C1 witness: a waist of 90 in a garment of 70 is scored at the floor of 50
C1_Witness ==
    /\ Returned("weighted")
    /\ virtualFitting.modelData = [waist |-> 90]
    /\ AllPositive(Effective)
    /\ Get(Effective, "waist") = 70
    /\ result.fitScore = 50 * Scale

\* C3 (as claimed): every region score of the weighted scorer lies between 50
\* and 100 for any non-zero user and garment measurements, a negative garment
\* measurement included.
C3_RegionScoreClamped ==
    (Returned("calculateFitScore") /\ virtualFitting # 0 /\ garment # 0)
    => (result.score >= 50 /\ result.score <= 100)

\* the user equals the garment in every region that has both measurements
EqualWherePresent ==
    \A part \in RegionSet : PresentBoth(part) => UserOf(part) = Get(Effective, part)

\* every scored region is scored 100, the fitScore is 100, the verdict "perfect"
AllPerfect ==
    /\ \A part \in RegionSet :
          PresentBoth(part)
          => /\ calculateFitScore_weighted(UserOf(part), Get(Effective, part)) = 100
             /\ result.fitDetails[part] = "Perfect fit"
    /\ result.fitScore = 100 * Scale
    /\ result.fit = "perfect"

\* C5 (as claimed): when the user equals the garment in every region that is
\* present, every present region scores 100, the fitScore is 100 and the
\* verdict is "perfect".
C5_EqualGivesPerfect ==
    (Returned("weighted") /\ EqualWherePresent) => AllPerfect

\* C5 (amended): the same, provided at least one region is present on both
\* sides.
C5_EqualGivesPerfectWithData ==
    (/\ Returned("weighted")
     /\ EqualWherePresent
     /\ \E part \in RegionSet : PresentBoth(part))
    => AllPerfect

\* C5 witness: the example of the spec, two regions present and equal, the
\* other three without data
C5_Witness ==
    /\ Returned("weighted")
    /\ virtualFitting.modelData = [bust |-> 90, waist |-> 70]
    /\ DOMAIN Effective = {"bust", "waist"}
    /\ EqualWherePresent
    /\ result.fitScore = 100 * Scale

\* C6 (as claimed): user {bust 90, waist 70}, base measurements {bust 90,
\* waist 70} and size "M" give fitScore 100, fit "perfect" and the size
\* recommendation "M".
C6_ExampleKeepsM ==
    (/\ Returned("weighted")
     /\ virtualFitting.modelData = [bust |-> 90, waist |-> 70]
     /\ garment.measurements = [bust |-> 90, waist |-> 70]
     /\ garment.sizes = <<>>
     /\ size = "M")
    => (/\ result.fitScore = 100 * Scale
        /\ result.fit = "perfect"
        /\ result.sizeRecommendation = "M")

NextLarger ==
    [XS |-> "S", S |-> "M", M |-> "L", L |-> "XL", XL |-> "XXL", XXL |-> "XXL"]

NextSmaller ==
    [XS |-> "XS", S |-> "XS", M |-> "S", L |-> "M", XL |-> "L", XXL |-> "XL"]

\* C7: for a selected size of the enumeration XS < S < M < L < XL < XXL, a
\* fitScore below 75 recommends the next larger size (XXL stays), a fitScore
\* above 95 the next smaller size (XS stays), any other fitScore the selected
\* size.
C7_RecommendationFollowsOrder ==
    (Returned("weighted") /\ size \in DOMAIN NextLarger)
    => result.sizeRecommendation =
          (IF result.fitScore < 75 * Scale THEN NextLarger[size]
           ELSE IF result.fitScore > 95 * Scale THEN NextSmaller[size]
           ELSE size)

\* C7 witness: a poor fit at XXL keeps XXL
C7_Witness ==
    /\ Returned("weighted")
    /\ size = "XXL"
    /\ result.fitScore < 75 * Scale
    /\ result.sizeRecommendation = "XXL"

\* C8: for a positive garment measurement the region score never rises when
\* the absolute difference grows, never drops below 50, and is exactly 50
\* from a relative difference of 20% on.
C8_RegionScoreMonotone ==
    (Returned("calculateFitScore") /\ garment > 0 /\ virtualFitting # 0)
    => /\ result.score >= 50
       /\ (5 * Abs(virtualFitting - garment) >= garment => result.score = 50)
       /\ \A other \in (-MaxCm..MaxCm) \ {0} :
             Abs(other - garment) >= Abs(virtualFitting - garment)
             => calculateFitScore_weighted(other, garment) <= result.score

\* C8 witness: 72 in a garment of 90 is a difference of exactly 20%
C8_Witness ==
    /\ Returned("calculateFitScore")
    /\ garment = 90
    /\ virtualFitting = 72
    /\ result.score = 50

\* the score of a region, computed from the arguments of the call
RegionScore(part) == calculateFitScore_weighted(UserOf(part), Get(Effective, part))

\* the regions with a measurement on both sides
Scored == {part \in RegionSet : PresentBoth(part)}

\* the same two, for given user measurements and garment measurements
ScoredOf(user, final) ==
    {part \in RegionSet : Get(user, UserKey(part)) # 0 /\ Get(final, part) # 0}

RegionScoresOf(user, final) ==
    [part \in RegionSet |->
        calculateFitScore_weighted(Get(user, UserKey(part)), Get(final, part))]

\* the sum of f over the regions of S
SumIn(f, S) ==
    LET term(part) == IF part \in S THEN f[part] ELSE 0
    IN  term("shoulders") + term("bust") + term("waist") + term("hips")
            + term("length")

\* C13: in the weighted catalog scorer a region whose measurement is absent
\* or zero on the user side or on the garment side has the score null and
\* the descriptor "No data available", and it takes no part in the average:
\* the fitScore lies between the lowest and the highest score of the other
\* regions.  A garment measurement of zero therefore never divides.
C13_NoDataRegionExcluded ==
    Returned("weighted")
    => LET user == virtualFitting.modelData
           final == Effective
           scored == ScoredOf(user, final)
           scores == RegionScoresOf(user, final)
       IN  /\ \A part \in RegionSet \ scored :
                 /\ scores[part] = Null
                 /\ result.fitDetails[part] = "No data available"
           /\ \A part \in scored :
                 /\ scores[part] \in 50..100
                 /\ result.fitDetails[part] # "No data available"
           /\ scored # {}
              => /\ \E part \in scored : result.fitScore >= scores[part] * Scale
                 /\ \E part \in scored : result.fitScore <= scores[part] * Scale

\* C13 witness: the size entry sets the garment's hips to zero for a user
\* with hips of 95; hips has no data, the other regions decide the score
C13_Witness ==
    /\ Returned("weighted")
    /\ UserOf("hips") = 95
    /\ "hips" \in DOMAIN Effective
    /\ Effective.hips = 0
    /\ result.fitDetails.hips = "No data available"
    /\ UserOf("waist") = 0
    /\ Get(Effective, "waist") > 0
    /\ result.fitDetails.waist = "No data available"
    /\ Scored = {"bust"}
    /\ result.fitScore = RegionScore("bust") * Scale

\* C14: the fitScore of the weighted catalog scorer is the weighted mean of
\* the scored regions (weights 0.15, 0.25, 0.25, 0.25, 0.10) rounded to a
\* nearest integer, the sum being divided by the weights of the scored
\* regions only; when all scored regions have the same score s the fitScore
\* is s, and when no region is scored the fitScore is 85.
C14_RoundedWeightedMean ==
    Returned("weighted")
    => LET user == virtualFitting.modelData
           final == Effective
           scored == ScoredOf(user, final)
           scores == RegionScoresOf(user, final)
           \* the weighted mean of the scored regions is numerator / denominator
           numerator == SumIn([part \in RegionSet |-> scores[part] * weights[part]],
                              scored)
           denominator == SumIn(weights, scored)
       IN  IF scored = {}
           THEN result.fitScore = 85 * Scale
           ELSE /\ result.fitScore \in {Scale * k : k \in 0..100}
                /\ 2 * Abs((result.fitScore \div Scale) * denominator - numerator)
                      <= denominator
                /\ LET s == scores[CHOOSE part \in scored : TRUE]
                   IN  (\A part \in scored : scores[part] = s)
                       => result.fitScore = s * Scale

\* C14 witness: shoulders and bust are scored differently, the other three
\* regions are not scored, and the fitScore lies strictly between the two
C14_Witness ==
    /\ Returned("weighted")
    /\ Scored = {"shoulders", "bust"}
    /\ RegionScore("shoulders") < RegionScore("bust")
    /\ result.fitScore > RegionScore("shoulders") * Scale
    /\ result.fitScore < RegionScore("bust") * Scale

\* C15: the verdict of the weighted catalog scorer is a function of the
\* fitScore alone: below 70 "poor", 70..79 "tight", 80..89 "good", 90 and
\* above "perfect"; without data the fitScore is 85 and the verdict "good".
C15_VerdictThresholds ==
    Returned("weighted")
    => /\ result.fit = (IF result.fitScore < 70 * Scale THEN "poor"
                        ELSE IF result.fitScore < 80 * Scale THEN "tight"
                        ELSE IF result.fitScore < 90 * Scale THEN "good"
                        ELSE "perfect")
       /\ ScoredOf(virtualFitting.modelData, Effective) = {}
          => (result.fitScore = 85 * Scale /\ result.fit = "good")

\* C15 witness: a fitScore of exactly 80 is "good"
C15_Witness ==
    /\ Returned("weighted")
    /\ Scored # {}
    /\ result.fitScore = 80 * Scale
    /\ result.fit = "good"

---------------------------------------------------------------------------
(* Properties of the service scorers.                                      *)

\* the measurement objects the service scorers read
BodyMeasurements == Prop(virtualFitting, "bodyMeasurements")

GarmentMeasurements ==
    Prop(garment, IF entry \in {"custom", "customInline"}
                  THEN "designSpecifications" ELSE "measurements")

\* both measurement objects are there
MeasurementsPresent ==
    /\ ~Falsy(virtualFitting)
    /\ ~Falsy(garment)
    /\ ~Falsy(BodyMeasurements)
    /\ ~Falsy(GarmentMeasurements)

\* region k is given on both sides
GivenBoth(k) == Get(BodyMeasurements, k) # 0 /\ Get(GarmentMeasurements, k) # 0

\* the case C2 is about
BustOrWaistGiven == MeasurementsPresent /\ (GivenBoth("bust") \/ GivenBoth("waist"))

\* C2 (as claimed): in the catalog scorer the try-on controller imports, with
\* bust or waist given on both sides, the fitScore lies in [50, 100] for
\* every selected size.
C2_ServiceScoreAtLeast50 ==
    (Returned("service") /\ BustOrWaistGiven)
    => (result.fitScore >= 50 * Scale /\ result.fitScore <= 100 * Scale)

\* C4: the custom-design scorer returns a fitScore in [0, 100] for every
\* input, the default result and differences of 50 cm or more included.
C4_CustomScoreInRange ==
    Returned("custom") => (result.fitScore >= 0 /\ result.fitScore <= 100 * Scale)

\* C4 witness: bust and waist both differ by 50 cm or more, the score is 0
C4_Witness ==
    /\ Returned("custom")
    /\ MeasurementsPresent
    /\ Abs(Get(BodyMeasurements, "bust") - Get(GarmentMeasurements, "bust")) >= 50
    /\ Abs(Get(BodyMeasurements, "waist") - Get(GarmentMeasurements, "waist")) >= 50
    /\ result.fitScore = 0

\* the documented default result of the catalog path
StandardDefault ==
    [fit |-> "Standard",
     sizeRecommendation |-> IF size = Undefined \/ size = "" THEN "M" ELSE size,
     fitScore |-> 75 * Scale,
     fitDetails |-> [shoulders |-> "Standard fit", bust |-> "Standard fit",
                     waist |-> "Standard fit", hips |-> "Standard fit",
                     length |-> "Standard fit"]]

\* an internal step raises: the size is undefined where it is upper-cased
InternalStepRaises ==
    /\ ~Falsy(virtualFitting)
    /\ ~Falsy(garment)
    /\ ~Falsy(BodyMeasurements)
    /\ ~Falsy(GarmentMeasurements)
    /\ size = Undefined

\* C9: the exported catalog scorer never throws; with the profile or the
\* product absent, and when an internal step raises, it returns exactly the
\* default result.
C9_ServiceDefaultNeverThrows ==
    Returned("service")
    => /\ result # Thrown
       /\ (Falsy(virtualFitting) \/ Falsy(garment) \/ InternalStepRaises)
          => result = StandardDefault

\* C9 witness: an undefined size with measurements on both sides ends in the
\* default result with the recommendation "M"
C9_Witness ==
    /\ Returned("service")
    /\ InternalStepRaises
    /\ result.sizeRecommendation = "M"
    /\ result.fitScore = 75 * Scale

\* the documented default result of the custom-design path
PerfectDefault ==
    [fit |-> "Perfect",
     sizeRecommendation |-> "Custom",
     fitScore |-> 95 * Scale,
     fitDetails |-> [shoulders |-> "Perfect fit", bust |-> "Perfect fit",
                     waist |-> "Perfect fit", hips |-> "Perfect fit",
                     length |-> "Perfect fit"]]

\* C10: the custom-design scorer never throws; with the profile or the
\* design absent it returns exactly the default result.
C10_CustomDefaultNeverThrows ==
    Returned("custom")
    => /\ result # Thrown
       /\ (Falsy(virtualFitting) \/ Falsy(garment)) => result = PerfectDefault

\* C10 witness: a profile without a design
C10_Witness ==
    /\ Returned("custom")
    /\ ~Falsy(virtualFitting)
    /\ Falsy(garment)
    /\ result.fitScore = 95 * Scale

\* the penalty of region k at the given rate (tenths of a point per cm) when
\* only a region given on both sides is penalised
PenaltyIfGiven(k, rate) ==
    IF GivenBoth(k)
    THEN rate * Abs(Get(BodyMeasurements, k) - Get(GarmentMeasurements, k))
    ELSE 0

\* C11 (as claimed): the custom-design scorer penalises bust, and waist, only
\* when the user measurement and the design specification of that region are
\* both present; a region missing on either side subtracts nothing from the
\* base score of 90, so a design without bust and waist scores exactly 90.
C11_AbsentRegionNotPenalised ==
    (Returned("custom") /\ MeasurementsPresent)
    => result.fitScore =
          Max(0, 90 * Scale - PenaltyIfGiven("bust", 3) - PenaltyIfGiven("waist", 5))

\* C12: every result of a custom-design scorer has the size recommendation
\* "Custom": on the normal path, with the profile or the design missing, and
\* in the scorer of part_005.
C12_AlwaysCustom ==
    (pc = "done" /\ entry \in {"custom", "customInline"})
    => result.sizeRecommendation = "Custom"

\* C12 witness: the normal path, with a penalty for a waist that differs
C12_Witness ==
    /\ Returned("custom")
    /\ MeasurementsPresent
    /\ GivenBoth("waist")
    /\ result.fitScore < 90 * Scale
    /\ result.sizeRecommendation = "Custom"

---------------------------------------------------------------------------
(* Properties of every scorer.                                             *)

\* C20: a scoring call leaves its arguments as they were: when the weighted
\* catalog scorer, the service catalog scorer or a custom-design scorer
\* returns, the profile with the user measurements, the product with its
\* base measurements and its per-size overrides, the design with its
\* specifications, and the selected size equal their values before the call.
C20_ArgumentsUnchanged ==
    [][(pc = "ready" /\ pc' = "done")
       => /\ virtualFitting' = virtualFitting
          /\ garment' = garment
          /\ size' = size
      ]_vars

\* C20 witness: the weighted scorer has scored a bust of 90 that the entry of
\* size M sets, while the product still has the base bust it was called with
C20_Witness ==
    /\ Returned("weighted")
    /\ size = "M"
    /\ garment.sizes = << [size |-> "M", measurements |-> [bust |-> 90, waist |-> 70]] >>
    /\ "bust" \in DOMAIN garment.measurements
    /\ garment.measurements.bust # 90
    /\ Effective.bust = 90
    /\ result.fitDetails.bust = "Perfect fit"
    /\ UserOf("bust") = 90

\* the position of a size in XS < S < M < L < XL < XXL
SizeRank(s) == IndexOf(sizeOptions, s)

\* C22 (as claimed): in the service catalog scorer, for a selected size of
\* XS..XL and a region measured on both sides, a user's waist more than 5
\* above the garment's waist recommends a size larger than the selected one,
\* and otherwise a user's bust more than 5 below the garment's bust
\* recommends a size smaller than the selected one.
C22_RecommendationMovesWithDifference ==
    (/\ Returned("service")
     /\ MeasurementsPresent
     /\ size \in {"XS", "S", "M", "L", "XL"})
    => IF /\ GivenBoth("waist")
          /\ Get(BodyMeasurements, "waist") > Get(GarmentMeasurements, "waist") + 5
       THEN SizeRank(result.sizeRecommendation) > SizeRank(size)
       ELSE (/\ GivenBoth("bust")
             /\ Get(BodyMeasurements, "bust") < Get(GarmentMeasurements, "bust") - 5)
            => SizeRank(result.sizeRecommendation) < SizeRank(size)

\* C24 (as claimed): in the weighted catalog scorer a selected size that is
\* not of the enumeration (an unknown or lower-case token, or undefined) is
\* recommended unchanged, whatever the fitScore.
C24_UnknownSizeKept ==
    (Returned("weighted") /\ size \notin DOMAIN NextLarger)
    => result.sizeRecommendation = size

---------------------------------------------------------------------------
(* Properties of the try-on controller.                                    *)

\* the try-on history of a user in a state of the collection
HistoryOf(docs, user) ==
    IF HasProfile(docs[user]) THEN docs[user].fittedProducts ELSE <<>>

EntriesOf(docs, user) ==
    {HistoryOf(docs, user)[i] : i \in 1..Len(HistoryOf(docs, user))}

\* C16 (as claimed): a try-on request with neither a product ID nor a
\* custom-design ID is answered with a request error (a 4xx status), no
\* fitting result is computed for it, and no entry is added to a history.
C16_NoIdRequestRejected ==
    [][(/\ request'.handler = "tryOnProduct"
        /\ request'.productId = Undefined
        /\ request'.customDesignId = Undefined)
       => /\ response'.status \in 400..499
          /\ fittingResult' = EmptyObject
          /\ \A user \in Users : HistoryOf(profiles', user) = HistoryOf(profiles, user)
      ]_vars

Completed ==
    /\ request'.handler = "tryOnProduct"
    /\ fittingResult' # EmptyObject
    /\ response' # ServerError("Error")

C21_OnlyOwnerTriesOnDesign ==
    [][/\ (/\ request'.handler = "tryOnProduct"
           /\ request'.customDesignId \in DOMAIN designs
           /\ designs[request'.customDesignId].user # request'.user)
          => /\ response'.status \in {403, 404, 500}
             /\ fittingResult' = EmptyObject
             /\ \A user \in Users :
                   HistoryOf(profiles', user) = HistoryOf(profiles, user)
       /\ \A user \in Users :
             \A e \in EntriesOf(profiles', user) :
                e.customDesign # NullRef
                => /\ e.customDesign \in DOMAIN designs
                   /\ designs[e.customDesign].user = user
      ]_vars

\* C23 (as claimed): the fit of every fittingResult that tryOnProduct puts
\* in an entry is one of the values the schema allows, and the save of the
\* entry is not rejected by the validation of the schema.
C23_FitAllowedBySchema ==
    [][(request'.handler = "tryOnProduct" /\ fittingResult' # EmptyObject)
       => /\ fittingResult'.fit \in fitEnum
          /\ response' # ServerError("ValidationError")
      ]_vars

---------------------------------------------------------------------------
(* Properties of the order controller.                                     *)

\* C25: whatever createOrder requests were served one after the other, the
\* quantity of every size of every product is at least 0, also after an
\* order that lists the same product and size in two items whose quantities
\* fit the stock one by one and exceed it together.
C25_StockNeverNegative ==
    \A p \in DOMAIN products :
        \A j \in 1..Len(products[p]) : products[p][j].quantity >= 0

\* C25 witness: an order with two items of size M, each within the stock and
\* together above it, was served; the stock of M is 0
C25_Witness ==
    /\ calls["c1"].pc = "done"
    /\ calls["c1"].handler = "createOrder"
    /\ Len(calls["c1"].items) = 2
    /\ calls["c1"].items[1] = calls["c1"].items[2]
    /\ calls["c1"].items[1].size = "M"
    /\ calls["c1"].status = 500
    /\ products["p1"][1].quantity = 0

\* the quantity a list of items orders of a size of a product
RECURSIVE orderedQuantity(_, _, _)
orderedQuantity(items, p, sz) ==
    IF Len(items) = 0 THEN 0
    ELSE (IF /\ "product" \in DOMAIN Head(items)
             /\ "size" \in DOMAIN Head(items)
             /\ Head(items).product = p
             /\ Head(items).size = sz
          THEN Head(items).quantity ELSE 0)
         + orderedQuantity(Tail(items), p, sz)

\* C27 (as claimed): a createOrder request answered 400, 404 or 500 has
\* stored no order and changed no quantity; a request answered 201 has
\* stored exactly one order, with the items of the request, and lowered the
\* quantity of every product size by the quantity its items order.
C27_OrderAllOrNothing ==
    [][calls'["c1"].handler = "createOrder"
       => LET answered == calls'["c1"]
          IN  /\ answered.status \in {400, 404, 500}
                 => orders' = orders /\ products' = products
              /\ answered.status = 201
                 => /\ orders' = Append(orders, [user |-> answered.user,
                                                 items |-> answered.items,
                                                 status |-> "pending"])
                    /\ \A p \in DOMAIN products :
                          \A j \in 1..Len(products[p]) :
                             products'[p][j].quantity =
                                products[p][j].quantity
                                - orderedQuantity(answered.items, p, products[p][j].size)
      ]_vars

\* the quantity the stored orders order of a size of a product
RECURSIVE soldQuantity(_, _, _)
soldQuantity(stored, p, sz) ==
    IF Len(stored) = 0 THEN 0
    ELSE orderedQuantity(Head(stored).items, p, sz) + soldQuantity(Tail(stored), p, sz)

\* C26 (as claimed): with the createOrder requests of two clients for size M
\* of one product interleaved at their awaits, the orders created never
\* order more of the size than the stock it had at the start (so of two
\* requests the stock covers only one of, at most one creates an order), and
\* no decrement is lost: when no request is in progress the stock is what it
\* was at the start less the quantity of the orders created.
C26_NoOversellNoLostDecrement ==
    LET sold == soldQuantity(orders, "p1", "M")
    IN  /\ sold <= MaxStock
        /\ (\A c \in Clients : Free(c))
           => products["p1"][1].quantity = MaxStock - sold

\* C28 (as claimed): the status of a custom design changes only in two ways:
\* from draft to submitted through submitCustomDesign by the owner of the
\* design, and from a status other than draft through updateDesignStatus by
\* the designer assigned to the design or by an admin; so no request of an
\* owner who is neither makes the design approved, and the designs createOrder
\* accepts were approved by a designer or an admin.
C28_StatusChangesByRole ==
    [][\A id \in DOMAIN customDesigns :
          customDesigns'[id].status # customDesigns[id].status
          => LET sent == calls'["c1"]
                 design == customDesigns[id]
             IN  IF design.status = "draft"
                 THEN /\ sent.handler = "submitCustomDesign"
                      /\ sent.user = design.user
                      /\ customDesigns'[id].status = "submitted"
                 ELSE /\ sent.handler = "updateDesignStatus"
                      /\ sent.user = design.assignedDesigner \/ role[sent.user] = "admin"
      ]_vars

\* C29 (as claimed): an updateOrderPayment request changes the status of an
\* order only from pending to processing; an order that is shipped, delivered
\* or cancelled keeps its status.
C29_PaymentNeverMovesBack ==
    [][calls'["c1"].handler = "updateOrderPayment"
       => \A id \in 1..Len(orders) :
             /\ orders[id].status \in {"shipped", "delivered", "cancelled"}
                => orders'[id].status = orders[id].status
             /\ orders'[id].status # orders[id].status
                => /\ orders[id].status = "pending"
                   /\ orders'[id].status = "processing"
      ]_vars

====
